---- MODULE Spec2Model ----
(***************************************************************************)
(* Model of the play queue / GIF enricher / publisher pipeline of          *)
(* EnhancedImpactTracker (src/enhanced_impact_tracker.py) and of           *)
(* MetsHomeRunTracker (src/mets_homerun_tracker.py), and of the thread     *)
(* life cycle driven by the dashboard (src/enhanced_dashboard.py).         *)
(*                                                                         *)
(* Spec runs one of the two trackers: Init chooses the program.  In it the *)
(* Poller and the Enricher of EnhancedImpactTracker interleave between two *)
(* calls of queue_high_impact_play and two iterations of the Enricher's    *)
(* for loop.  DashboardSpec runs the /start and /stop routes and the       *)
(* threads they create; FairDashboardSpec adds the scheduling of those     *)
(* threads.  RoundTripSpec saves a queue and loads it into a fresh         *)
(* tracker.  ScoreSpec applies calculate_impact_score and                  *)
(* is_high_impact_play to plays drawn from bounded sets.  RaceSpec and     *)
(* FairRaceSpec run EnhancedImpactTracker with the Enricher's end-of-cycle *)
(* rebuild of play_queue as the two steps it is.  LiveSpec runs            *)
(* LiveImpactTracker (src/live_impact_tracker.py) within one day and       *)
(* RolloverSpec over several days.                                         *)
(*                                                                         *)
(* A play is identified by its composite play_id; the identifiers are      *)
(* numbered 1..NumPlays.  An Optional[...] field is a sequence of length   *)
(* at most one.  Of the wall clock the model keeps what the code uses:     *)
(* last_attempt is kept as its age, now - last_attempt, in seconds, up to  *)
(* the retry cooldown, and timestamp as the rank of the enqueue, the       *)
(* n-th accepted enqueue of the day reading the clock n-th.                *)
(***************************************************************************)
EXTENDS Integers, Sequences, FiniteSets, TLC

\* ---------------------------------------------------------------- bounds
\* Number of distinct composite play identifiers the stats API reports.
NumPlays == 2
\* Seconds of pipeline work (downloads, conversion, webhook) in one Enricher
\* cycle, on top of its sleep.
CycleWorkSeconds == 90
\* Enqueues accepted per day (bounds plays_queued_today).
MaxQueuedToday == 3
\* Configuration of the tracker, scaled down (the source sets 10, 100, 20, 5).
max_queue_size == 2
max_processed_plays == 1
ProcessedEvictCount == 1
max_attempts == 2
\* Configuration of MetsHomeRunTracker, scaled down (the source sets 20, 200, 50).
mets_max_queue_size == 2
mets_max_processed_plays == 1
MetsProcessedTrim == 0
\* Duration of a polling cycle, in minutes, at most.
MaxElapsedSteps == 3
\* LiveImpactTracker: play identifiers the stats API reports, impacts from
\* 0 to MaxImpactSteps times 15 percent, and the days the tracker runs.
MaxLivePlays == 4
MaxImpactSteps == 3
MaxDays == 2
\* Play identifiers reported in the runs that cross midnight.
MaxRolloverPlays == 2
\* Threads the dashboard creates in one run.
MaxThreads == 2
\* Longest queue whose save and reload is compared.
RoundTripLen == 1
\* Plays that are scored: delta_home_win_exp from -MaxSwingSteps to
\* MaxSwingSteps twentieths, wpa from -MaxWpaSteps to MaxWpaSteps fifths,
\* innings 1..MaxInning, leverage_index 0..MaxLeverageSteps halves.
MaxSwingSteps == 9
MaxWpaSteps == 2
MaxInning == 9
MaxLeverageSteps == 8

\* ------------------------------------------------------ program constants
\* time.sleep(60) at the end of every Enricher cycle.
GifSleepSeconds == 60
\* minimum number of seconds between two GIF attempts on one item.
RetryCooldownSeconds == 300
\* for i in range(120): time.sleep(1) at the end of a Mets monitoring cycle.
MetsSleepSeconds == 120

PlayIds == 1..NumPlays
CycleSeconds == GifSleepSeconds + CycleWorkSeconds

None == << >>
Some(x) == << x >>

VARIABLES
    play_queue,          \* self.play_queue: sequence of QueuedPlay records
    processed_plays,     \* self.processed_plays: set of play ids
    plays_queued_today,  \* self.plays_queued_today
    tweets_posted_today, \* self.tweets_posted_today
    gif_pc,              \* position of the Enricher thread in its loop
    gif_index,           \* index of the list iterator of the Enricher's for loop
    last_call,           \* the last operation, its argument and what it returned / logged
    queued_count,        \* history: how often each play id was appended to the queue
    post_count,          \* history: how often each play id was published successfully
    disk,                \* the queue file (play_queue.pkl / mets_homerun_queue.pkl)
    tracker,             \* the program that runs: "enhanced", "mets", "dashboard",
                         \* "roundtrip" (save and restart), "scorer", or
                         \* LiveImpactTracker within a day ("live") or over
                         \* several days ("rollover")
    scored,              \* the play the Poller scores, its impact_score and the filter's answer
    homerun_queue,       \* MetsHomeRunTracker.homerun_queue
    hr_pending,          \* rest of the copy homerun_queue[:] the Mets for loop iterates
    mets_pc,             \* position of the Mets monitoring loop
    monitoring,          \* self.monitoring
    processing_gifs,     \* self.processing_gifs
    poller_pc,           \* position of each monitor_games thread
    gif_thread_pc,       \* position of each process_gif_queue thread
    last_scan,           \* how the last polling cycle ended and the sleep it chose
    rebuilt,             \* the list the Enricher's end-of-cycle comprehension has built
                         \* and not yet assigned to self.play_queue
    live                 \* LiveImpactTracker: its fields, its files and the calendar

enhancedVars == << play_queue, gif_pc, gif_index, tweets_posted_today, rebuilt >>
metsVars     == << homerun_queue, hr_pending, mets_pc >>
threadVars   == << monitoring, processing_gifs, poller_pc, gif_thread_pc, last_scan >>
vars == << play_queue, processed_plays, plays_queued_today, tweets_posted_today,
           gif_pc, gif_index, last_call, queued_count, post_count, disk,
           tracker, scored, homerun_queue, hr_pending, mets_pc,
           monitoring, processing_gifs, poller_pc, gif_thread_pc, last_scan, rebuilt,
           live >>

Threads == 1..MaxThreads

\* ------------------------------------------------------------ QueuedPlay
QueuedPlay(id, ts) ==
    [ play_id      |-> id,
      timestamp    |-> ts,
      gif_attempts |-> 0,
      max_attempts |-> max_attempts,
      last_attempt |-> None,
      gif_created  |-> FALSE,
      tweet_posted |-> FALSE,
      gif_path     |-> None ]

\* ------------------------------------------------------- list operations
Indices(q) == 1..Len(q)

RemoveAt(q, i) == SubSeq(q, 1, i - 1) \o SubSeq(q, i + 1, Len(q))

\* index of min(candidates, key=lambda x: x.timestamp): the first item of
\* least timestamp among the positions in cand; list.remove then removes
\* the first item equal to it, which is that same position.
OldestIndex_Newest(q, cand) ==
    CHOOSE i \in cand :
        /\ \A j \in cand : q[i].timestamp >= q[j].timestamp
        /\ \A j \in cand : (q[j].timestamp = q[i].timestamp) => i <= j

OldestIndex(q, cand) ==
    CHOOSE i \in cand :
        /\ \A j \in cand : q[i].timestamp <= q[j].timestamp
        /\ \A j \in cand : (q[j].timestamp = q[i].timestamp) => i <= j

CompletedIdx(q) == { i \in Indices(q) : q[i].tweet_posted }
FailedIdx_Flipped(q) == { i \in Indices(q) : q[i].gif_attempts <= q[i].max_attempts }
FailedIdx(q)    == { i \in Indices(q) : q[i].gif_attempts >= q[i].max_attempts }

\* No play is being scored.
NoPlay == [ stage |-> "none" ]

\* No LiveImpactTracker runs.
NoLive == [ pc |-> "none" ]

\* No polling cycle has ended yet.
NoScan == [ outcome |-> "none", elapsed |-> 0, sleep_time |-> 0 ]

\* State after construction, whatever the program.
Constructed ==
    /\ last_scan = NoScan
    /\ rebuilt = None
    /\ live = NoLive
    /\ play_queue = << >>
    /\ processed_plays = {}
    /\ plays_queued_today = 0
    /\ tweets_posted_today = 0
    /\ gif_pc = "scan"
    /\ gif_index = 1
    /\ last_call = [op |-> "init", play_id |-> 0, ret |-> FALSE, log |-> "init"]
    /\ queued_count = [id \in PlayIds |-> 0]
    /\ post_count = [id \in PlayIds |-> 0]
    /\ disk = None
    /\ scored = NoPlay
    /\ homerun_queue = << >>
    /\ hr_pending = << >>
    /\ mets_pc = "poll"

\* monitor_games runs on the main thread and has started the Enricher.
Init ==
    /\ Constructed
    /\ tracker \in {"enhanced", "mets"}
    /\ monitoring = TRUE
    /\ processing_gifs = (tracker = "enhanced")
    /\ poller_pc = [t \in Threads |-> IF t = 1 THEN "test" ELSE "unborn"]
    /\ gif_thread_pc = [t \in Threads |-> IF t = 1 /\ tracker = "enhanced"
                                          THEN "test" ELSE "unborn"]

Call(op, id, ret, log) == [op |-> op, play_id |-> id, ret |-> ret, log |-> log]

\* The age of a last_attempt after d more seconds.
Older(last, d) ==
    IF last = None THEN None
    ELSE IF last[1] + d < RetryCooldownSeconds THEN Some(last[1] + d)
    ELSE Some(RetryCooldownSeconds)

\* The queue q after d seconds have passed.
Aged(q, d) == [i \in Indices(q) |-> [q[i] EXCEPT !.last_attempt = Older(@, d)]]

\* ------------------------------------------------- save_queue / load_queue
\* datetime.isoformat() gives a string, datetime.fromisoformat() parses it.
isoformat(t) == << "iso", t >>
fromisoformat(str) == str[2]

\* QueuedPlay.to_dict / MetsHomeRun.to_dict: asdict with both datetimes as
\* strings.
to_dict_LosesLastAttempt(p) ==
    [p EXCEPT !.timestamp = isoformat(@), !.last_attempt = None]

to_dict(p) ==
    [p EXCEPT !.timestamp = isoformat(@),
              !.last_attempt = IF @ = None THEN None ELSE Some(isoformat(@[1]))]

\* QueuedPlay.from_dict / MetsHomeRun.from_dict
from_dict(data) ==
    [data EXCEPT !.timestamp = fromisoformat(@),
                 !.last_attempt = IF @ = None THEN None ELSE Some(fromisoformat(@[1]))]

\* list(self.processed_plays): the ids in some order
RECURSIVE SetToList(_)
SetToList(P) ==
    IF P = {} THEN << >>
    ELSE LET x == CHOOSE y \in P : TRUE IN << x >> \o SetToList(P \ {x})

\* set(data.get('processed_plays', []))
ListToSet(l) == { l[i] : i \in DOMAIN l }

\* The file save_queue writes for the queue q and the processed set P; the
\* write is taken to succeed (a failure is only logged).
save_queue_QueueOnly(q, P) ==
    Some([ queue |-> [i \in Indices(q) |-> to_dict(q[i])], processed_plays |-> << >> ])

save_queue(q, P) ==
    Some([ queue           |-> [i \in Indices(q) |-> to_dict(q[i])],
           processed_plays |-> SetToList(P) ])

\* What load_queue makes of the file d: nothing is loaded without a file.
load_queue(d) ==
    IF d = None
    THEN [ queue |-> << >>, processed_plays |-> {} ]
    ELSE [ queue           |-> [i \in DOMAIN d[1].queue |-> from_dict(d[1].queue[i])],
           processed_plays |-> ListToSet(d[1].processed_plays) ]

\* The file d after secs more seconds: the datetimes it stores are as much
\* older.
DiskAged(d, secs) ==
    IF d = None THEN None
    ELSE LET q == load_queue(d).queue
         IN  Some([ d[1] EXCEPT !.queue = [i \in Indices(q) |-> to_dict(Aged(q, secs)[i])] ])

\* ------------------------------------------------ queue_high_impact_play
\* What lines 652-669 do to a queue q: nothing below capacity, else evict a
\* completed play, else evict a failed play, else refuse the new play.
EvictionKind_OffByOne(q) ==
    IF Len(q) > max_queue_size
    THEN IF CompletedIdx(q) # {} THEN "completed"
         ELSE IF FailedIdx(q) # {} THEN "failed"
         ELSE "refuse"
    ELSE "none"

EvictionKind_NoFailed(q) ==
    IF Len(q) >= max_queue_size
    THEN IF CompletedIdx(q) # {} THEN "completed" ELSE "refuse"
    ELSE "none"

EvictionKind(q) ==
    IF Len(q) >= max_queue_size
    THEN IF CompletedIdx(q) # {} THEN "completed"
         ELSE IF FailedIdx(q) # {} THEN "failed"
         ELSE "refuse"
    ELSE "none"

AfterEviction(q) ==
    CASE EvictionKind(q) = "completed" -> RemoveAt(q, OldestIndex(q, CompletedIdx(q)))
      [] EvictionKind(q) = "failed"    -> RemoveAt(q, OldestIndex(q, FailedIdx(q)))
      [] OTHER                         -> q

\* list(self.processed_plays)[:20]: the first ids in the iteration order of
\* a set of strings, which is any subset of that size.
ProcessedDrops(P) ==
    IF Cardinality(P) >= max_processed_plays
    THEN { D \in SUBSET P :
             Cardinality(D) = (IF Cardinality(P) < ProcessedEvictCount
                               THEN Cardinality(P) ELSE ProcessedEvictCount) }
    ELSE { {} }

queue_high_impact_play(id) ==
    /\ tracker = "enhanced"
    /\ UNCHANGED << tweets_posted_today, gif_pc, gif_index, post_count,
                    tracker, scored, rebuilt, metsVars, threadVars, live >>
    /\ IF id \in processed_plays
       THEN /\ last_call' = Call("queue", id, FALSE, "already processed")
            /\ UNCHANGED << play_queue, processed_plays, plays_queued_today, queued_count, disk >>
       ELSE IF EvictionKind(play_queue) = "refuse"
       THEN /\ last_call' = Call("queue", id, FALSE, "queue at max size")
            /\ UNCHANGED << play_queue, processed_plays, plays_queued_today, queued_count, disk >>
       ELSE /\ plays_queued_today < MaxQueuedToday
            /\ \E D \in ProcessedDrops(processed_plays) :
                   processed_plays' = (processed_plays \ D) \cup {id}
            /\ play_queue' = Append(AfterEviction(play_queue),
                                    QueuedPlay(id, plays_queued_today + 1))
            /\ plays_queued_today' = plays_queued_today + 1
            /\ queued_count' = [queued_count EXCEPT ![id] = @ + 1]
            /\ last_call' = Call("queue", id, TRUE, EvictionKind(play_queue))
            /\ disk' = save_queue(play_queue', processed_plays')

\* ------------------------------------------------------ process_gif_queue
\* get_gif_for_play returns no file, raises, or returns an existing file.
GifOutcomes == {"none", "raise", "file"}
\* discord_client.send_impact_notification returns True or False.
PostOutcomes == {TRUE, FALSE}

\* Why the for loop passes over play p without an attempt (lines 821-839),
\* or "attempt".
Eligibility_OffByOne(p) ==
    IF p.tweet_posted THEN "skip posted"
    ELSE IF p.last_attempt # None /\ p.last_attempt[1] < RetryCooldownSeconds
    THEN "skip cooldown"
    ELSE IF p.gif_attempts > p.max_attempts THEN "gave up"
    ELSE "attempt"

Eligibility_NoCooldown(p) ==
    IF p.tweet_posted THEN "skip posted"
    ELSE IF p.gif_attempts >= p.max_attempts THEN "gave up"
    ELSE "attempt"

Eligibility(p) ==
    IF p.tweet_posted THEN "skip posted"
    ELSE IF p.last_attempt # None /\ p.last_attempt[1] < RetryCooldownSeconds
    THEN "skip cooldown"
    ELSE IF p.gif_attempts >= p.max_attempts THEN "gave up"
    ELSE "attempt"

\* if gif_path and os.path.exists(gif_path)
GifFileExists(gif) == gif = "file"

\* post_to_discord is called inside the branch taken when the GIF exists.
ShouldPublish_Always(created) == TRUE
ShouldPublish(created) == created

\* post_to_discord(queued_play) with the webhook answering sent.
post_to_discord_MarksAlways(p, sent) == [p EXCEPT !.tweet_posted = TRUE]

post_to_discord(p, sent) ==
    IF sent THEN [p EXCEPT !.tweet_posted = TRUE] ELSE p

\* queued_play.gif_attempts += 1; queued_play.last_attempt = now
RecordAttempt_NoStamp(p) == [p EXCEPT !.gif_attempts = @ + 1]
RecordAttempt(p) == [p EXCEPT !.gif_attempts = @ + 1, !.last_attempt = Some(0)]

\* One iteration of the for loop over play_queue (lines 820-899).
ProcessPlay(gif, sent) ==
    /\ tracker = "enhanced"
    /\ gif_pc = "scan"
    /\ gif_index <= Len(play_queue)
    /\ LET p == play_queue[gif_index]
           e == Eligibility(p)
           a == RecordAttempt(p)
           created == GifFileExists(gif)
           c == IF created
                THEN [a EXCEPT !.gif_created = TRUE, !.gif_path = Some(p.play_id)]
                ELSE a
       IN  IF e # "attempt"
           THEN /\ last_call' = Call("process", p.play_id, FALSE, e)
                /\ UNCHANGED << play_queue, tweets_posted_today, post_count, disk >>
           ELSE IF ~ShouldPublish(created)
           THEN /\ play_queue' = [play_queue EXCEPT ![gif_index] = c]
                /\ last_call' = Call("process", p.play_id, FALSE,
                                     IF gif = "raise" THEN "gif error" ELSE "no gif")
                /\ disk' = save_queue(play_queue', processed_plays)
                /\ UNCHANGED << tweets_posted_today, post_count >>
           ELSE /\ play_queue' = [play_queue EXCEPT ![gif_index] = post_to_discord(c, sent)]
                /\ disk' = save_queue(play_queue', processed_plays)
                /\ tweets_posted_today' = tweets_posted_today + (IF sent THEN 1 ELSE 0)
                /\ post_count' = [post_count EXCEPT ![p.play_id] = @ + (IF sent THEN 1 ELSE 0)]
                /\ last_call' = Call("process", p.play_id, sent,
                                     IF sent THEN "posted" ELSE "post failed")
    /\ gif_index' = gif_index + 1
    /\ UNCHANGED << processed_plays, plays_queued_today, gif_pc, queued_count,
                    tracker, scored, rebuilt, metsVars, threadVars, live >>

\* [play for play in self.play_queue if not play.tweet_posted]
RemoveCompleted_DropsExhausted(q) ==
    SelectSeq(q, LAMBDA p : ~p.tweet_posted /\ p.gif_attempts < p.max_attempts)
RemoveCompleted(q) == SelectSeq(q, LAMBDA p : ~p.tweet_posted)

\* End of the for loop: drop the published plays (lines 901-907).
CleanupCompleted ==
    /\ tracker = "enhanced"
    /\ gif_pc = "scan"
    /\ gif_index > Len(play_queue)
    /\ play_queue' = RemoveCompleted(play_queue)
    /\ gif_pc' = "sleep"
    /\ last_call' = Call("cleanup", 0, FALSE, "cleanup")
    /\ UNCHANGED << processed_plays, plays_queued_today, tweets_posted_today,
                    gif_index, queued_count, post_count, disk,
                    tracker, scored, rebuilt, metsVars, threadVars, live >>

\* time.sleep(60), then the next cycle starts its for loop.
GifSleep ==
    /\ tracker = "enhanced"
    /\ gif_pc = "sleep"
    /\ play_queue' = Aged(play_queue, CycleSeconds)
    /\ disk' = DiskAged(disk, CycleSeconds)
    /\ gif_pc' = "scan"
    /\ gif_index' = 1
    /\ last_call' = Call("sleep", 0, FALSE, "sleep")
    /\ UNCHANGED << processed_plays, plays_queued_today, tweets_posted_today,
                    queued_count, post_count, tracker, scored, rebuilt, metsVars, threadVars, live >>

\* ------------------------------------------------- the rebuild, step by step
\* self.play_queue = [play for play in self.play_queue if not play.tweet_posted]
\* is two steps of the Enricher thread: the comprehension builds a new list
\* from the list self.play_queue names, then the attribute is bound to the
\* new list.  The Poller thread can run between the two.
RebuildQueue ==
    /\ tracker = "enhanced"
    /\ gif_pc = "scan"
    /\ gif_index > Len(play_queue)
    /\ rebuilt' = Some(RemoveCompleted(play_queue))
    /\ gif_pc' = "rebuild"
    /\ last_call' = Call("cleanup", 0, FALSE, "rebuild")
    /\ UNCHANGED << play_queue, processed_plays, plays_queued_today, tweets_posted_today,
                    gif_index, queued_count, post_count, disk,
                    tracker, scored, metsVars, threadVars, live >>

AssignQueue ==
    /\ tracker = "enhanced"
    /\ gif_pc = "rebuild"
    /\ play_queue' = rebuilt[1]
    /\ rebuilt' = None
    /\ gif_pc' = "sleep"
    /\ last_call' = Call("cleanup", 0, FALSE, "cleanup")
    /\ UNCHANGED << processed_plays, plays_queued_today, tweets_posted_today,
                    gif_index, queued_count, post_count, disk,
                    tracker, scored, metsVars, threadVars, live >>

RaceInit == Init /\ tracker = "enhanced"

RaceNext ==
    \/ \E id \in PlayIds : queue_high_impact_play(id)
    \/ \E gif \in GifOutcomes, sent \in PostOutcomes : ProcessPlay(gif, sent)
    \/ RebuildQueue
    \/ AssignQueue
    \/ GifSleep

RaceSpec == RaceInit /\ [][RaceNext]_vars

\* ===================================================== MetsHomeRunTracker
MetsHomeRun(id, ts) ==
    [ play_id      |-> id,
      timestamp    |-> ts,
      gif_attempts |-> 0,
      max_attempts |-> max_attempts,
      last_attempt |-> None,
      gif_created  |-> FALSE,
      posted       |-> FALSE,
      gif_path     |-> None ]

\* index of the first item of q equal to h, 0 if there is none
FirstEqual(q, h) ==
    IF \E i \in Indices(q) : q[i] = h
    THEN CHOOSE i \in Indices(q) : q[i] = h /\ \A j \in 1..(i - 1) : q[j] # h
    ELSE 0

\* if len(self.homerun_queue) > self.max_queue_size: self.homerun_queue.pop(0)
MetsMaintainQueue(q) ==
    IF Len(q) > mets_max_queue_size THEN Tail(q) ELSE q

\* len(l[start:]) for a list l of n elements
SliceLen(n, start) ==
    IF start < 0 THEN (IF 0 - start < n THEN 0 - start ELSE n)
    ELSE (IF n - start > 0 THEN n - start ELSE 0)

\* set(list(self.processed_plays)[-self.max_processed_plays + 50:]): the
\* last ids in the iteration order of a set of strings, any subset of
\* that size.
MetsMaintainProcessed(P) ==
    IF Cardinality(P) > mets_max_processed_plays
    THEN { K \in SUBSET P :
             Cardinality(K) = SliceLen(Cardinality(P),
                                       MetsProcessedTrim - mets_max_processed_plays) }
    ELSE { P }

queue_mets_home_run(id) ==
    /\ tracker = "mets"
    /\ mets_pc = "poll"
    /\ UNCHANGED << enhancedVars, post_count, tracker, scored, hr_pending, mets_pc, threadVars, live >>
    /\ IF id \in processed_plays
       THEN /\ last_call' = Call("queue", id, FALSE, "already processed")
            /\ UNCHANGED << homerun_queue, processed_plays, plays_queued_today, queued_count, disk >>
       ELSE /\ plays_queued_today < MaxQueuedToday
            /\ homerun_queue' = MetsMaintainQueue(Append(homerun_queue,
                                     MetsHomeRun(id, plays_queued_today + 1)))
            /\ processed_plays' \in MetsMaintainProcessed(processed_plays \cup {id})
            /\ plays_queued_today' = plays_queued_today + 1
            /\ queued_count' = [queued_count EXCEPT ![id] = @ + 1]
            /\ last_call' = Call("queue", id, TRUE,
                                 IF Len(homerun_queue) + 1 > mets_max_queue_size
                                 THEN "removed oldest" ELSE "none")
            /\ disk' = save_queue(homerun_queue', processed_plays')

\* The polling part of a monitoring cycle is over: process_gif_queue is
\* called if the queue is not empty, and copies the queue.
MetsPollDone ==
    /\ tracker = "mets"
    /\ mets_pc = "poll"
    /\ IF homerun_queue # << >>
       THEN mets_pc' = "gif" /\ hr_pending' = homerun_queue
       ELSE mets_pc' = "sleep" /\ hr_pending' = << >>
    /\ last_call' = Call("polled", 0, FALSE, "polled")
    /\ UNCHANGED << enhancedVars, processed_plays, plays_queued_today, queued_count,
                    post_count, disk, tracker, scored, homerun_queue, threadVars, live >>

\* Why the Mets for loop passes over home run h (lines 321-334), or
\* "attempt".
MetsEligibility(h) ==
    IF h.gif_created /\ h.posted THEN "skip posted"
    ELSE IF h.gif_attempts >= h.max_attempts THEN "gave up"
    ELSE IF h.last_attempt # None /\ h.last_attempt[1] < RetryCooldownSeconds
    THEN "skip cooldown"
    ELSE "attempt"

\* cleanup_completed_homerun: self.homerun_queue.remove(home_run) if present
cleanup_completed_homerun(q, h) ==
    IF FirstEqual(q, h) = 0 THEN q ELSE RemoveAt(q, FirstEqual(q, h))

\* One iteration of the for loop of MetsHomeRunTracker.process_gif_queue.
MetsProcess(gif, sent) ==
    /\ tracker = "mets"
    /\ mets_pc = "gif"
    /\ hr_pending # << >>
    /\ LET h == Head(hr_pending)
           k == FirstEqual(homerun_queue, h)
           e == MetsEligibility(h)
           a == [h EXCEPT !.gif_attempts = @ + 1, !.last_attempt = Some(0)]
           c == [a EXCEPT !.gif_created = TRUE, !.gif_path = Some(h.play_id)]
           d == IF sent THEN [c EXCEPT !.posted = TRUE] ELSE c
           Put(x) == IF k = 0 THEN homerun_queue ELSE [homerun_queue EXCEPT ![k] = x]
       IN  CASE e = "gave up" ->
                 /\ homerun_queue' = cleanup_completed_homerun(homerun_queue, h)
                 /\ last_call' = Call("process", h.play_id, FALSE, e)
                 /\ UNCHANGED << post_count, disk >>
             [] e \in {"skip posted", "skip cooldown"} ->
                 /\ last_call' = Call("process", h.play_id, FALSE, e)
                 /\ UNCHANGED << homerun_queue, post_count, disk >>
             [] e = "attempt" /\ ~GifFileExists(gif) ->
                 /\ homerun_queue' = Put(a)
                 /\ last_call' = Call("process", h.play_id, FALSE,
                                      IF gif = "raise" THEN "gif error" ELSE "no gif")
                 /\ disk' = save_queue(homerun_queue', processed_plays)
                 /\ UNCHANGED post_count
             [] e = "attempt" /\ GifFileExists(gif) ->
                 /\ homerun_queue' = cleanup_completed_homerun(Put(d), d)
                 /\ disk' = save_queue(homerun_queue', processed_plays)
                 /\ post_count' = [post_count EXCEPT ![h.play_id] = @ + (IF sent THEN 1 ELSE 0)]
                 /\ last_call' = Call("process", h.play_id, sent,
                                      IF sent THEN "posted" ELSE "post failed")
    /\ hr_pending' = Tail(hr_pending)
    /\ UNCHANGED << enhancedVars, processed_plays, plays_queued_today, queued_count,
                    tracker, scored, mets_pc, threadVars, live >>

\* The for loop is over; the monitoring loop sleeps two minutes.
MetsSleep ==
    /\ tracker = "mets"
    /\ \/ mets_pc = "gif" /\ hr_pending = << >>
       \/ mets_pc = "sleep"
    /\ mets_pc' = "poll"
    /\ homerun_queue' = Aged(homerun_queue, MetsSleepSeconds)
    /\ disk' = DiskAged(disk, MetsSleepSeconds)
    /\ last_call' = Call("sleep", 0, FALSE, "sleep")
    /\ UNCHANGED << enhancedVars, processed_plays, plays_queued_today, queued_count,
                    post_count, tracker, scored, hr_pending, threadVars, live >>

Next ==
    \/ \E id \in PlayIds : queue_high_impact_play(id)
    \/ \E gif \in GifOutcomes, sent \in PostOutcomes : ProcessPlay(gif, sent)
    \/ CleanupCompleted
    \/ GifSleep
    \/ \E id \in PlayIds : queue_mets_home_run(id)
    \/ MetsPollDone
    \/ \E gif \in GifOutcomes, sent \in PostOutcomes : MetsProcess(gif, sent)
    \/ MetsSleep

Spec == Init /\ [][Next]_vars

\* ============================================================== dashboard
pipelineVars == << play_queue, processed_plays, plays_queued_today, tweets_posted_today,
                   gif_pc, gif_index, queued_count, post_count,
                   tracker, scored, rebuilt, homerun_queue, hr_pending, mets_pc, live >>

\* enhanced_dashboard.main(): the tracker is constructed and a monitor_games
\* thread is started at once.
DashboardInit ==
    /\ Constructed
    /\ tracker = "dashboard"
    /\ monitoring = FALSE
    /\ processing_gifs = FALSE
    /\ poller_pc = [t \in Threads |-> IF t = 1 THEN "start" ELSE "unborn"]
    /\ gif_thread_pc = [t \in Threads |-> "unborn"]

Unborn == { t \in Threads : poller_pc[t] = "unborn" }

\* the /start route
start_monitoring ==
    /\ IF ~monitoring
       THEN /\ Unborn # {}
            /\ LET t == CHOOSE u \in Unborn : \A v \in Unborn : u <= v
               IN  /\ poller_pc' = [poller_pc EXCEPT ![t] = "start"]
                   /\ last_call' = Call("/start", t, TRUE, "started")
       ELSE /\ last_call' = Call("/start", 0, FALSE, "already running")
            /\ UNCHANGED poller_pc
    /\ UNCHANGED << pipelineVars, disk, monitoring, processing_gifs, gif_thread_pc, last_scan >>

\* the /stop route, which calls tracker.stop_monitoring()
stop_monitoring ==
    /\ IF monitoring
       THEN /\ monitoring' = FALSE
            /\ processing_gifs' = FALSE
            /\ disk' = save_queue(play_queue, processed_plays)
            /\ last_call' = Call("/stop", 0, TRUE, "stopped")
       ELSE /\ last_call' = Call("/stop", 0, FALSE, "not running")
            /\ UNCHANGED << monitoring, processing_gifs, disk >>
    /\ UNCHANGED << pipelineVars, poller_pc, gif_thread_pc, last_scan >>

\* monitor_games up to its while loop: sets both flags and starts the
\* process_gif_queue thread.
MonitorGamesBegin(t) ==
    /\ poller_pc[t] = "start"
    /\ monitoring' = TRUE
    /\ processing_gifs' = TRUE
    /\ gif_thread_pc' = [gif_thread_pc EXCEPT ![t] = "test"]
    /\ poller_pc' = [poller_pc EXCEPT ![t] = "test"]
    /\ last_call' = Call("monitor_games", t, TRUE, "begin")
    /\ UNCHANGED << pipelineVars, disk, last_scan >>

\* the test of while self.monitoring: / while self.processing_gifs:
LoopContinues_Always(flag) == TRUE
LoopContinues(flag) == flag

\* The durations of a polling cycle, in seconds.
Elapsed == { 60 * k : k \in 0..MaxElapsedSteps }

\* sleep_time = max(0, 120 - elapsed)
SleepTime_NoFloor(elapsed) == 120 - elapsed
SleepTime(elapsed) == IF 120 - elapsed > 0 THEN 120 - elapsed ELSE 0

\* The body of the try: the cycle ends normally after elapsed seconds, or an
\* Exception is raised, logged, and the handler sleeps 120 seconds.
ScanOutcome(raised, elapsed) ==
    IF raised
    THEN [ outcome |-> "error", elapsed |-> 0, sleep_time |-> 120 ]
    ELSE [ outcome |-> "ok", elapsed |-> elapsed, sleep_time |-> SleepTime(elapsed) ]

\* while self.monitoring: one scan, then the thread sleeps; else it ends.
MonitorGamesTest(t) ==
    /\ poller_pc[t] = "test"
    /\ IF LoopContinues(monitoring)
       THEN /\ \E raised \in BOOLEAN, elapsed \in Elapsed :
                  last_scan' = ScanOutcome(raised, elapsed)
            /\ poller_pc' = [poller_pc EXCEPT ![t] = "sleep"]
       ELSE /\ poller_pc' = [poller_pc EXCEPT ![t] = "done"]
            /\ UNCHANGED last_scan
    /\ last_call' = Call("monitor_games", t, monitoring, "test")
    /\ UNCHANGED << pipelineVars, disk, monitoring, processing_gifs, gif_thread_pc >>

MonitorGamesWake(t) ==
    /\ poller_pc[t] = "sleep"
    /\ poller_pc' = [poller_pc EXCEPT ![t] = "test"]
    /\ last_call' = Call("monitor_games", t, TRUE, "wake")
    /\ UNCHANGED << pipelineVars, disk, monitoring, processing_gifs, gif_thread_pc, last_scan >>

\* while self.processing_gifs: one cycle, then the thread sleeps; else it ends.
ProcessGifQueueTest(t) ==
    /\ gif_thread_pc[t] = "test"
    /\ gif_thread_pc' = [gif_thread_pc EXCEPT ![t] = IF LoopContinues(processing_gifs)
                                                     THEN "sleep" ELSE "done"]
    /\ last_call' = Call("process_gif_queue", t, processing_gifs, "test")
    /\ UNCHANGED << pipelineVars, disk, monitoring, processing_gifs, poller_pc, last_scan >>

ProcessGifQueueWake(t) ==
    /\ gif_thread_pc[t] = "sleep"
    /\ gif_thread_pc' = [gif_thread_pc EXCEPT ![t] = "test"]
    /\ last_call' = Call("process_gif_queue", t, TRUE, "wake")
    /\ UNCHANGED << pipelineVars, disk, monitoring, processing_gifs, poller_pc, last_scan >>

DashboardNext ==
    \/ start_monitoring
    \/ stop_monitoring
    \/ \E t \in Threads : MonitorGamesBegin(t)
    \/ \E t \in Threads : MonitorGamesTest(t)
    \/ \E t \in Threads : MonitorGamesWake(t)
    \/ \E t \in Threads : ProcessGifQueueTest(t)
    \/ \E t \in Threads : ProcessGifQueueWake(t)

DashboardSpec == DashboardInit /\ [][DashboardNext]_vars

\* The steps of the monitor_games thread t and of the process_gif_queue
\* thread t.
PollerStep(t) == MonitorGamesBegin(t) \/ MonitorGamesTest(t) \/ MonitorGamesWake(t)
EnricherStep(t) == ProcessGifQueueTest(t) \/ ProcessGifQueueWake(t)

\* Every thread is scheduled and every sleep ends; nothing obliges anyone
\* to request /start or /stop.
FairDashboardSpec ==
    /\ DashboardSpec
    /\ \A t \in Threads : WF_vars(PollerStep(t)) /\ WF_vars(EnricherStep(t))

\* The Enricher loop is scheduled fairly; nothing obliges the stats API to
\* report further plays.
FairSpec ==
    /\ Spec
    /\ WF_vars(\E gif \in GifOutcomes, sent \in PostOutcomes : ProcessPlay(gif, sent))
    /\ WF_vars(CleanupCompleted)
    /\ WF_vars(GifSleep)

\* The same for the Enricher whose rebuild is two steps.
FairRaceSpec ==
    /\ RaceSpec
    /\ WF_vars(\E gif \in GifOutcomes, sent \in PostOutcomes : ProcessPlay(gif, sent))
    /\ WF_vars(RebuildQueue)
    /\ WF_vars(AssignQueue)
    /\ WF_vars(GifSleep)

\* ======================================================= save and restart
\* The progress a queued play can have made: attempts, the age of the last
\* one, and the flags the Enricher sets in this order.
Progress ==
    { r \in [ gif_attempts : 0..max_attempts,
              last_attempt : {None, Some(0), Some(CycleSeconds), Some(RetryCooldownSeconds)},
              gif_created  : BOOLEAN,
              tweet_posted : BOOLEAN ] :
        /\ (r.gif_attempts = 0) <=> (r.last_attempt = None)
        /\ r.gif_created => r.gif_attempts > 0
        /\ r.tweet_posted => r.gif_created }

\* The play id in the i-th queued item with progress r.
ItemWith(id, i, r) ==
    [ QueuedPlay(id, i) EXCEPT !.gif_attempts = r.gif_attempts,
                               !.last_attempt = r.last_attempt,
                               !.gif_created  = r.gif_created,
                               !.tweet_posted = r.tweet_posted,
                               !.gif_path     = IF r.gif_created THEN Some(id) ELSE None ]

\* The queues of at most RoundTripLen plays, in the order of their enqueue.
RoundTripQueues ==
    UNION { { [i \in 1..n |-> ItemWith(f[i][1], i, f[i][2])] :
                f \in [1..n -> PlayIds \X Progress] } : n \in 0..RoundTripLen }

\* A tracker with some queue and processed set, its file not yet written.
RoundTripInit ==
    /\ play_queue \in RoundTripQueues
    /\ processed_plays \in SUBSET PlayIds
    /\ plays_queued_today = 0
    /\ tweets_posted_today = 0
    /\ gif_pc = "scan"
    /\ gif_index = 1
    /\ last_call = [op |-> "init", play_id |-> 0, ret |-> FALSE, log |-> "init"]
    /\ queued_count = [id \in PlayIds |-> 0]
    /\ post_count = [id \in PlayIds |-> 0]
    /\ disk = None
    /\ scored = NoPlay
    /\ homerun_queue = << >>
    /\ hr_pending = << >>
    /\ mets_pc = "poll"
    /\ tracker = "roundtrip"
    /\ last_scan = NoScan
    /\ rebuilt = None
    /\ live = NoLive
    /\ monitoring = FALSE
    /\ processing_gifs = FALSE
    /\ poller_pc = [t \in Threads |-> "unborn"]
    /\ gif_thread_pc = [t \in Threads |-> "unborn"]

\* save_queue() as stop_monitoring calls it before the process ends.
RoundTripSave ==
    /\ disk' = save_queue(play_queue, processed_plays)
    /\ last_call' = Call("save_queue", 0, TRUE, "saved")
    /\ UNCHANGED << pipelineVars, threadVars >>

\* The process starts again: __init__ builds an empty tracker and calls
\* load_queue().
RoundTripLoad ==
    /\ play_queue' = load_queue(disk).queue
    /\ processed_plays' = load_queue(disk).processed_plays
    /\ last_call' = Call("load_queue", 0, disk # None,
                         IF disk # None THEN "loaded" ELSE "no file")
    /\ UNCHANGED << plays_queued_today, tweets_posted_today, gif_pc, gif_index,
                    queued_count, post_count, disk, tracker, scored, rebuilt, metsVars, threadVars, live >>

RoundTripNext == RoundTripSave \/ RoundTripLoad

RoundTripSpec == RoundTripInit /\ [][RoundTripNext]_vars

\* ================================================================ scoring
\* Numbers are fixed point: an impact score, delta_home_win_exp and wpa
\* count ten-thousandths, leverage_index counts hundredths.
\* A str is the sequence of its characters.
Uppers == << "A", "B", "C", "D", "E", "F", "G", "H", "I", "J", "K", "L", "M",
             "N", "O", "P", "Q", "R", "S", "T", "U", "V", "W", "X", "Y", "Z" >>
Lowers == << "a", "b", "c", "d", "e", "f", "g", "h", "i", "j", "k", "l", "m",
             "n", "o", "p", "q", "r", "s", "t", "u", "v", "w", "x", "y", "z" >>

\* str.lower()
lower(str) ==
    [i \in DOMAIN str |->
        IF \E k \in DOMAIN Uppers : Uppers[k] = str[i]
        THEN Lowers[CHOOSE k \in DOMAIN Uppers : Uppers[k] = str[i]]
        ELSE str[i]]

\* sub in str
Contains(str, sub) ==
    \E i \in 1..(Len(str) - Len(sub) + 1) : SubSeq(str, i, i + Len(sub) - 1) = sub

\* the literals calculate_impact_score looks for
S_home_run == << "h", "o", "m", "e", "_", "r", "u", "n" >>
S_triple == << "t", "r", "i", "p", "l", "e" >>
S_double == << "d", "o", "u", "b", "l", "e" >>
S_single == << "s", "i", "n", "g", "l", "e" >>
S_walk == << "w", "a", "l", "k" >>
S_base_on_balls == << "b", "a", "s", "e", "_", "o", "n", "_", "b", "a", "l", "l", "s" >>
S_strikeout == << "s", "t", "r", "i", "k", "e", "o", "u", "t" >>
S_out == << "o", "u", "t" >>
S_walk_off == << "w", "a", "l", "k", "_", "o", "f", "f" >>
S_walkoff == << "w", "a", "l", "k", "o", "f", "f" >>
S_grand_slam == << "g", "r", "a", "n", "d", "_", "s", "l", "a", "m" >>

\* dict.get(key, default) for a key that may be missing
Get(field, default) == IF field = None THEN default ELSE field[1]

Abs(x) == IF x < 0 THEN 0 - x ELSE x

\* round(x, 4) of a non-negative x given in hundred-thousandths: the nearest
\* ten-thousandth, the even one when two are as near.
Round4(x) ==
    LET q == x \div 10
        r == x % 10
    IN  IF r < 5 THEN q
        ELSE IF r > 5 THEN q + 1
        ELSE IF q % 2 = 0 THEN q ELSE q + 1

\* estimated_wp_change before the situational modifiers (lines 586-607), in
\* ten-thousandths.
EventEstimate(event, inning, leverage) ==
    IF Contains(event, S_home_run)
    THEN (IF inning >= 9 THEN 25 * leverage ELSE 15 * leverage)
    ELSE IF Contains(event, S_triple) THEN 12 * leverage
    ELSE IF Contains(event, S_double) THEN 8 * leverage
    ELSE IF Contains(event, S_single) THEN 6 * leverage
    ELSE IF Contains(event, S_walk) \/ Contains(event, S_base_on_balls) THEN 4 * leverage
    ELSE IF Contains(event, S_strikeout) THEN (0 - 5) * leverage
    ELSE IF Contains(event, S_out) THEN (0 - 3) * leverage
    ELSE IF Contains(event, S_walk_off) \/ Contains(event, S_walkoff) THEN 5000
    ELSE IF Contains(event, S_grand_slam) THEN 40 * leverage
    ELSE 0

\* the situational modifier (lines 609-613), in tenths
LateFactor_NoNinth(inning) == IF inning >= 7 THEN 12 ELSE 10

LateFactor(inning) ==
    IF inning >= 9 THEN 15 ELSE IF inning >= 7 THEN 12 ELSE 10

\* the fallback estimate of calculate_impact_score (lines 573-618)
Heuristic(play) ==
    LET leverage == Get(play.leverage_index, 100)
        inning   == Get(play.inning, 1)
        event    == lower(Get(play.event, << >>))
    IN  Round4(Abs(EventEstimate(event, inning, leverage) * LateFactor(inning)))

calculate_impact_score_WpaFirst(play) ==
    IF Get(play.wpa, 0) # 0 THEN Abs(Get(play.wpa, 0))
    ELSE IF Get(play.delta_home_win_exp, 0) # 0 THEN Abs(Get(play.delta_home_win_exp, 0))
    ELSE Heuristic(play)

calculate_impact_score(play) ==
    IF Get(play.delta_home_win_exp, 0) # 0 THEN Abs(Get(play.delta_home_win_exp, 0))
    ELSE IF Get(play.wpa, 0) # 0 THEN Abs(Get(play.wpa, 0))
    ELSE Heuristic(play)

\* EnhancedImpactTracker.is_high_impact_play
is_high_impact_play_NoPrimary(impact_score, leverage) ==
    \/ impact_score >= 3000 /\ leverage >= 300
    \/ impact_score >= 2500 /\ leverage >= 250

is_high_impact_play_NoTertiary(impact_score, leverage) ==
    \/ impact_score >= 4000
    \/ impact_score >= 3000 /\ leverage >= 300

is_high_impact_play(impact_score, leverage) ==
    \/ impact_score >= 4000
    \/ impact_score >= 3000 /\ leverage >= 300
    \/ impact_score >= 2500 /\ leverage >= 250

\* RealTimeImpactTracker.is_high_impact_play
rt_is_high_impact_play(impact_score, leverage) ==
    \/ impact_score >= 4000
    \/ impact_score >= 3000 /\ leverage >= 300
    \/ impact_score >= 2500 /\ leverage >= 250

\* The plays get_game_plays and the Savant lookup can hand to the scorer.
Events ==
    { << "h", "o", "m", "e", "_", "r", "u", "n" >>,
      << "H", "o", "m", "e", "_", "R", "u", "n" >>,
      << "t", "r", "i", "p", "l", "e" >>,
      << "d", "o", "u", "b", "l", "e" >>,
      << "s", "i", "n", "g", "l", "e" >>,
      << "w", "a", "l", "k" >>,
      << "s", "t", "r", "i", "k", "e", "o", "u", "t" >>,
      << "f", "i", "e", "l", "d", "_", "o", "u", "t" >>,
      << "w", "a", "l", "k", "_", "o", "f", "f" >>,
      << "g", "r", "a", "n", "d", "_", "s", "l", "a", "m" >>,
      << "b", "a", "l", "k" >> }

Plays ==
    [ delta_home_win_exp : {None} \cup { Some(500 * k) : k \in (0 - MaxSwingSteps)..MaxSwingSteps },
      wpa                : {None} \cup { Some(2000 * k) : k \in (0 - MaxWpaSteps)..MaxWpaSteps },
      event              : {None} \cup { Some(e) : e \in Events },
      inning             : {None} \cup { Some(i) : i \in 1..MaxInning },
      leverage_index     : {None} \cup { Some(50 * k) : k \in 0..MaxLeverageSteps } ]

\* The Poller holds a play it is about to score.
ScoreInit ==
    /\ play_queue = << >>
    /\ processed_plays = {}
    /\ plays_queued_today = 0
    /\ tweets_posted_today = 0
    /\ gif_pc = "scan"
    /\ gif_index = 1
    /\ last_call = [op |-> "init", play_id |-> 0, ret |-> FALSE, log |-> "init"]
    /\ queued_count = [id \in PlayIds |-> 0]
    /\ post_count = [id \in PlayIds |-> 0]
    /\ disk = None
    /\ scored \in { [stage |-> "play", play |-> p] : p \in Plays }
    /\ homerun_queue = << >>
    /\ hr_pending = << >>
    /\ mets_pc = "poll"
    /\ tracker = "scorer"
    /\ last_scan = NoScan
    /\ rebuilt = None
    /\ live = NoLive
    /\ monitoring = TRUE
    /\ processing_gifs = TRUE
    /\ poller_pc = [t \in Threads |-> IF t = 1 THEN "test" ELSE "unborn"]
    /\ gif_thread_pc = [t \in Threads |-> IF t = 1 THEN "test" ELSE "unborn"]

\* impact_score = self.calculate_impact_score(play)
ScorePlay ==
    /\ scored.stage = "play"
    /\ scored' = [ stage        |-> "scored",
                   play         |-> scored.play,
                   impact_score |-> calculate_impact_score(scored.play) ]
    /\ last_call' = Call("calculate_impact_score", 0, FALSE, "scored")
    /\ UNCHANGED << play_queue, processed_plays, plays_queued_today, tweets_posted_today,
                    gif_pc, gif_index, queued_count, post_count, disk, tracker,
                    rebuilt, metsVars, threadVars, live >>

\* self.is_high_impact_play(impact_score, play.get('leverage_index', 1.0)),
\* in both trackers
FilterPlay ==
    /\ scored.stage = "scored"
    /\ LET leverage == Get(scored.play.leverage_index, 100)
       IN  /\ scored' = [ stage        |-> "filtered",
                          play         |-> scored.play,
                          impact_score |-> scored.impact_score,
                          leverage     |-> leverage,
                          marquee      |-> is_high_impact_play(scored.impact_score, leverage),
                          rt_marquee   |-> rt_is_high_impact_play(scored.impact_score, leverage) ]
           /\ last_call' = Call("is_high_impact_play", 0,
                                is_high_impact_play(scored.impact_score, leverage), "filtered")
    /\ UNCHANGED << play_queue, processed_plays, plays_queued_today, tweets_posted_today,
                    gif_pc, gif_index, queued_count, post_count, disk, tracker,
                    rebuilt, metsVars, threadVars, live >>

ScoreNext == ScorePlay \/ FilterPlay

ScoreSpec == ScoreInit /\ [][ScoreNext]_vars

\* ====================================================== LiveImpactTracker
\* live is a record: top_plays and processed_plays are the fields of the
\* tracker, last_date is _last_date (None before the first cycle), today is
\* the calendar day, data_file is daily_top_plays.pkl (None when absent),
\* previous_files maps a day d to daily_top_plays_<d>.pkl, extracted is the
\* history of the plays extract_impact_from_play returned since the daily
\* data were last reset, and pc is the position of the monitoring loop.
LiveIds == IF tracker = "rollover" THEN 1..MaxRolloverPlays ELSE 1..MaxLivePlays
IsLive  == tracker \in {"live", "rollover"}
Impacts == { 15 * k : k \in 0..MaxImpactSteps }
Days    == 0..MaxDays

\* The plays the stats API hands to extract_impact_from_play: an identifier,
\* the impact in percent and whether it comes from a real WPA.
LivePlays == [ play_id : LiveIds, impact : Impacts, has_real_wpa : BOOLEAN ]

\* extract_impact_from_play: None for a play already processed or below
\* min_impact (10 with a real WPA, 25 without).
MinImpact(play) == IF play.has_real_wpa THEN 10 ELSE 25

extract_impact_from_play(L, play) ==
    IF play.play_id \in L.processed_plays THEN None
    ELSE IF play.impact < MinImpact(play) THEN None
    ELSE Some(play)

\* key=lambda p: (p.has_real_wpa, p.impact)
SortKey(p) == << IF p.has_real_wpa THEN 1 ELSE 0, p.impact >>
KeyGeq(a, b) == a[1] > b[1] \/ (a[1] = b[1] /\ a[2] >= b[2])

\* append, stable sort with reverse=True, and pop() beyond three; top is
\* sorted already, so the new play goes behind the plays whose key is not
\* smaller.
update_top_plays(top, new) ==
    LET k   == Cardinality({ i \in Indices(top) : KeyGeq(SortKey(top[i]), SortKey(new)) })
        ins == SubSeq(top, 1, k) \o << new >> \o SubSeq(top, k + 1, Len(top))
    IN  IF Len(ins) > 3 THEN SubSeq(ins, 1, Len(ins) - 1) ELSE ins

\* min(p.impact for p in self.top_plays) if len(self.top_plays) == 3 else 0
min_impact_for_top3(top) ==
    IF Len(top) = 3
    THEN CHOOSE m \in { top[i].impact : i \in Indices(top) } :
             \A i \in Indices(top) : m <= top[i].impact
    ELSE 0

\* len(self.top_plays) < 3 or impact_play.impact > min_impact_for_top3
Admitted(top, new) == Len(top) < 3 \/ new.impact > min_impact_for_top3(top)

save_daily_data(L) ==
    [L EXCEPT !.data_file = Some([ date            |-> L.today,
                                   plays           |-> L.top_plays,
                                   processed_plays |-> L.processed_plays ])]

\* writes daily_top_plays_<get_previous_date()>.pkl
save_previous_day_data(L) ==
    IF L.today - 1 \in Days
    THEN [L EXCEPT !.previous_files[L.today - 1] =
                       Some([ date |-> L.today - 1, plays |-> L.top_plays ])]
    ELSE L

load_previous_day_data(L) ==
    IF L.today - 1 \in Days /\ L.previous_files[L.today - 1] # None
       /\ L.previous_files[L.today - 1][1].date = L.today - 1
    THEN L.previous_files[L.today - 1][1].plays
    ELSE << >>

reset_daily_data(L) ==
    LET kept == IF L.top_plays # << >> THEN save_previous_day_data(L) ELSE L
    IN  save_daily_data([kept EXCEPT !.top_plays = << >>,
                                     !.processed_plays = {},
                                     !.extracted = {}])

\* load_daily_data on a tracker just constructed
load_daily_data(L) ==
    IF L.data_file # None /\ L.data_file[1].date = L.today
    THEN [L EXCEPT !.top_plays = L.data_file[1].plays,
                   !.processed_plays = L.data_file[1].processed_plays]
    ELSE reset_daily_data(L)

\* LiveImpactTracker() with no data file, on day 1, and start_monitoring().
LiveConstructed ==
    /\ play_queue = << >>
    /\ processed_plays = {}
    /\ plays_queued_today = 0
    /\ tweets_posted_today = 0
    /\ gif_pc = "scan"
    /\ gif_index = 1
    /\ last_call = [op |-> "init", play_id |-> 0, ret |-> FALSE, log |-> "init"]
    /\ queued_count = [id \in PlayIds |-> 0]
    /\ post_count = [id \in PlayIds |-> 0]
    /\ disk = None
    /\ scored = NoPlay
    /\ homerun_queue = << >>
    /\ hr_pending = << >>
    /\ mets_pc = "poll"
    /\ last_scan = NoScan
    /\ rebuilt = None
    /\ monitoring = FALSE
    /\ processing_gifs = FALSE
    /\ poller_pc = [t \in Threads |-> "unborn"]
    /\ gif_thread_pc = [t \in Threads |-> "unborn"]
    /\ live = load_daily_data([ pc              |-> "check",
                                top_plays       |-> << >>,
                                processed_plays |-> {},
                                last_date       |-> None,
                                today           |-> 1,
                                data_file       |-> None,
                                previous_files  |-> [d \in Days |-> None],
                                extracted       |-> {} ])

notLive == << play_queue, processed_plays, plays_queued_today, tweets_posted_today,
              gif_pc, gif_index, queued_count, post_count, disk, tracker, scored,
              homerun_queue, hr_pending, mets_pc, monitoring, processing_gifs,
              poller_pc, gif_thread_pc, last_scan, rebuilt >>

\* Top of the monitoring loop: a new day resets the daily data.
LiveCheckDay ==
    /\ IsLive
    /\ live.pc = "check"
    /\ LET new_day == live.last_date # None /\ live.last_date[1] # live.today
           L == IF new_day THEN reset_daily_data(live) ELSE live
       IN  /\ live' = [L EXCEPT !.last_date = Some(live.today), !.pc = "scan"]
           /\ last_call' = Call("check_day", 0, new_day,
                                IF new_day THEN "new day" ELSE "same day")
    /\ UNCHANGED notLive

\* One iteration of the loop over the plays in scan_for_impacts.
LiveScanPlay(play) ==
    /\ IsLive
    /\ live.pc = "scan"
    /\ LET x == extract_impact_from_play(live, play)
       IN  IF x = None
           THEN /\ live' = live
                /\ last_call' = Call("scan", play.play_id, FALSE, "no impact play")
           ELSE LET M == [live EXCEPT !.processed_plays = @ \cup {play.play_id},
                                      !.extracted = @ \cup {x[1]}]
                IN  IF Admitted(live.top_plays, x[1])
                    THEN /\ live' = save_daily_data(
                                       [M EXCEPT !.top_plays = update_top_plays(@, x[1])])
                         /\ last_call' = Call("scan", play.play_id, TRUE, "updated")
                    ELSE /\ live' = M
                         /\ last_call' = Call("scan", play.play_id, FALSE, "not in top 3")
    /\ UNCHANGED notLive

\* The scan is over and the loop has slept.
LiveScanDone ==
    /\ IsLive
    /\ live.pc = "scan"
    /\ live' = [live EXCEPT !.pc = "check"]
    /\ last_call' = Call("scan", 0, FALSE, "done")
    /\ UNCHANGED notLive

\* Midnight, Eastern time.
LiveMidnight ==
    /\ tracker = "rollover"
    /\ live.today < MaxDays
    /\ live' = [live EXCEPT !.today = @ + 1]
    /\ last_call' = Call("midnight", 0, FALSE, "midnight")
    /\ UNCHANGED notLive

\* The process ends, with or without the save_daily_data() of main()'s
\* finally, and starts again: __init__ and start_monitoring().
LiveRestart(graceful) ==
    /\ IsLive
    /\ LET old == IF graceful THEN save_daily_data(live) ELSE live
           new == [old EXCEPT !.top_plays = << >>, !.processed_plays = {},
                              !.last_date = None, !.pc = "check"]
           loaded == new.data_file # None /\ new.data_file[1].date = new.today
       IN  /\ live' = load_daily_data(
                         IF loaded THEN new ELSE [new EXCEPT !.extracted = {}])
           /\ last_call' = Call("start", 0, loaded,
                                IF loaded THEN "loaded" ELSE "starting fresh")
    /\ UNCHANGED notLive

\* One day of scans.
LiveInit == LiveConstructed /\ tracker = "live"

LiveNext ==
    \/ LiveCheckDay
    \/ \E play \in LivePlays : LiveScanPlay(play)
    \/ LiveScanDone
    \/ \E graceful \in BOOLEAN : LiveRestart(graceful)

LiveSpec == LiveInit /\ [][LiveNext]_vars

\* Several days.
RolloverInit == LiveConstructed /\ tracker = "rollover"

RolloverNext ==
    \/ LiveNext
    \/ LiveMidnight

RolloverSpec == RolloverInit /\ [][RolloverNext]_vars

\* ================================================================ claims
Enhanced         == tracker = "enhanced"
IsQueueCall(c)   == c.op = "queue"
PublishLogs      == {"posted", "post failed"}
AttemptLogs      == {"no gif", "gif error", "posted", "post failed"}
Exhausted(p)     == p.gif_attempts >= p.max_attempts
Abandoned(p)     == Exhausted(p) /\ ~p.tweet_posted
Pending(p)       == ~p.tweet_posted /\ p.gif_attempts < p.max_attempts
MinTimestamp(q, cand) ==
    CHOOSE t \in { q[i].timestamp : i \in cand } :
        \A j \in cand : t <= q[j].timestamp
\* the queue q holds the item v the enqueue created (whatever its progress)
Holds(q, v) ==
    \E i \in Indices(q) : q[i].play_id = v.play_id /\ q[i].timestamp = v.timestamp

\* C1: once an enqueue has recorded a play id in processed_plays, no later
\* enqueue appends another queue item with that id: every play id is
\* appended to the queue at most once in a process lifetime.
C1_IdempotentIngestion ==
    \A id \in PlayIds : queued_count[id] <= 1

\* the items of q1 and q2 agree, position by position, in every field the
\* Enricher and the Publisher read or write
SameQueue(q1, q2) ==
    /\ Len(q1) = Len(q2)
    /\ \A i \in Indices(q1) :
           /\ q1[i].play_id = q2[i].play_id
           /\ q1[i].gif_attempts = q2[i].gif_attempts
           /\ q1[i].last_attempt = q2[i].last_attempt
           /\ q1[i].gif_created = q2[i].gif_created
           /\ q1[i].tweet_posted = q2[i].tweet_posted
           /\ q1[i].gif_path = q2[i].gif_path

Mutation(c) ==
    \/ IsQueueCall(c) /\ c.ret
    \/ c.op = "process" /\ c.log \in AttemptLogs
    \/ c.op = "cleanup"
\* what a restart would load is what the tracker holds
DiskMatches ==
    /\ load_queue(disk).queue = play_queue
    /\ load_queue(disk).processed_plays = processed_plays

AtPost(p) ==
    [p EXCEPT !.gif_attempts = @ + 1, !.last_attempt = Some(0),
              !.gif_created = TRUE, !.gif_path = Some(p.play_id)]

\* C13: when the webhook send succeeds, post_to_discord sets tweet_posted
\* and adds one to tweets_posted_today; when it fails or raises, the item
\* and tweets_posted_today are unchanged, the item stays in the queue and
\* False is returned.
C13_PostEffects ==
    [][ (Enhanced /\ last_call'.op = "process" /\ last_call'.log \in PublishLogs)
        => /\ Len(play_queue') = Len(play_queue)
           /\ \A j \in Indices(play_queue) :
                  j # gif_index => play_queue'[j] = play_queue[j]
           /\ IF last_call'.ret
              THEN /\ last_call'.log = "posted"
                   /\ play_queue'[gif_index] =
                          [AtPost(play_queue[gif_index]) EXCEPT !.tweet_posted = TRUE]
                   /\ tweets_posted_today' = tweets_posted_today + 1
              ELSE /\ last_call'.log = "post failed"
                   /\ play_queue'[gif_index] = AtPost(play_queue[gif_index])
                   /\ ~play_queue'[gif_index].tweet_posted
                   /\ tweets_posted_today' = tweets_posted_today ]_vars

C13_Witness ==
    /\ Enhanced
    /\ last_call.op = "process" /\ last_call.log = "post failed" /\ ~last_call.ret
    /\ tweets_posted_today > 0
    /\ \E i \in Indices(play_queue) :
           /\ play_queue[i].play_id = last_call.play_id
           /\ play_queue[i].gif_created
           /\ ~play_queue[i].tweet_posted

\* C14: in MetsHomeRunTracker.process_gif_queue, when the GIF was created
\* but post_to_discord returned False, the home run is still in
\* homerun_queue, with posted false, for a later cycle to publish it.
C14_MetsKeepsUnposted ==
    (tracker = "mets" /\ last_call.op = "process" /\ last_call.log = "post failed")
        => \E i \in Indices(homerun_queue) :
               /\ homerun_queue[i].play_id = last_call.play_id
               /\ homerun_queue[i].gif_created
               /\ ~homerun_queue[i].posted

Scored   == scored.stage \in {"scored", "filtered"}
Filtered == scored.stage = "filtered"

\* C15: is_high_impact_play returns true for every score >= 0.40, whatever
\* the leverage, in EnhancedImpactTracker and in RealTimeImpactTracker.
C15_MarqueeFromForty ==
    (Filtered /\ scored.impact_score >= 4000)
        => (scored.marquee /\ scored.rt_marquee)

C15_Witness ==
    /\ Filtered
    /\ scored.impact_score >= 4000
    /\ scored.leverage = 0
    /\ scored.marquee /\ scored.rt_marquee

\* C16 (as claimed): for a score in [0.30, 0.40) is_high_impact_play returns
\* true when leverage >= 3.0 and false for every leverage < 3.0.
C16_ThirtyNeedsLeverageThree ==
    (Filtered /\ scored.impact_score >= 3000 /\ scored.impact_score < 4000)
        => (scored.marquee <=> scored.leverage >= 300)

\* C16 (amended): for a score in [0.30, 0.40) is_high_impact_play returns
\* true when leverage >= 2.5 (the third rule asks for a score >= 0.25 and a
\* leverage >= 2.5) and false for every leverage < 2.5.
C16_ThirtyNeedsLeverageTwoAndHalf ==
    (Filtered /\ scored.impact_score >= 3000 /\ scored.impact_score < 4000)
        => (scored.marquee <=> scored.leverage >= 250)

C16_Witness ==
    /\ Filtered
    /\ scored.impact_score >= 3000 /\ scored.impact_score < 4000
    /\ scored.leverage = 250
    /\ scored.marquee

\* C17: calculate_impact_score returns a value v with 0 <= v <= 1 for every
\* play.
C17_ScoreInUnitInterval ==
    Scored => (0 <= scored.impact_score /\ scored.impact_score <= 10000)

\* C18: for a home_run in inning 9 with leverage 3.5 and neither
\* delta_home_win_exp nor wpa, calculate_impact_score returns
\* 0.25 x 3.5 x 1.5 = 1.3125 and is_high_impact_play returns true.
LateHomeRun ==
    [ delta_home_win_exp |-> None, wpa |-> None, event |-> Some(S_home_run),
      inning |-> Some(9), leverage_index |-> Some(350) ]

C18_LateHomeRunScore ==
    (Scored /\ scored.play = LateHomeRun)
        => /\ scored.impact_score = 13125
           /\ 10 * scored.impact_score = 25 * 350 * 15
           /\ Filtered => scored.marquee

C18_Witness ==
    /\ Filtered
    /\ scored.play = LateHomeRun
    /\ scored.impact_score = 13125
    /\ scored.marquee

\* the event of play names none of the event types the scorer knows
UnknownEvent(play) ==
    LET event == lower(Get(play.event, << >>))
    IN  \A known \in { S_home_run, S_triple, S_double, S_single, S_walk,
                        S_base_on_balls, S_strikeout, S_out, S_walk_off,
                        S_walkoff, S_grand_slam } : ~Contains(event, known)

\* C28: a play with neither delta_home_win_exp nor wpa and an unknown event
\* is scored from a generic non-zero base rate times leverage (1.0 when
\* missing) times the late-inning factor: with a positive leverage its
\* score is positive.
C28_UnknownEventGenericBase ==
    (/\ Scored
     /\ scored.play.delta_home_win_exp = None /\ scored.play.wpa = None
     /\ UnknownEvent(scored.play)
     /\ Get(scored.play.leverage_index, 100) > 0)
        => scored.impact_score > 0

\* C19: a non-zero delta_home_win_exp d gives |d| whatever the wpa, event,
\* inning and leverage; without it a non-zero wpa w gives |w|; only
\* otherwise the heuristic is used.
C19_ScorerPriority ==
    Scored =>
        LET d == Get(scored.play.delta_home_win_exp, 0)
            w == Get(scored.play.wpa, 0)
        IN  /\ d # 0 => scored.impact_score = Abs(d)
            /\ (d = 0 /\ w # 0) => scored.impact_score = Abs(w)
            /\ (d = 0 /\ w = 0) => scored.impact_score = Heuristic(scored.play)

C19_Witness ==
    /\ Filtered
    /\ scored.play.delta_home_win_exp = Some(0 - 4500)
    /\ scored.play.wpa = Some(2000)
    /\ scored.play.event = Some(S_strikeout)
    /\ scored.impact_score = 4500
    /\ scored.marquee

\* C2: the length of play_queue never exceeds max_queue_size.
C2_QueueBounded ==
    Len(play_queue) <= max_queue_size

C2_Witness ==
    /\ Enhanced
    /\ IsQueueCall(last_call) /\ last_call.ret
    /\ last_call.log \in {"completed", "failed"}
    /\ Len(play_queue) = max_queue_size

\* C3: no two items of play_queue have the same composite play id.
C3_UniqueIds ==
    \A i, j \in Indices(play_queue) :
        i # j => play_queue[i].play_id # play_queue[j].play_id

\* C4: every queued item has gif_attempts <= max_attempts, and an Enricher
\* step never makes a GIF attempt on an item whose gif_attempts already
\* equals max_attempts.
C4_AttemptsCapped ==
    /\ [](/\ \A i \in Indices(play_queue) :
               play_queue[i].gif_attempts <= play_queue[i].max_attempts
          /\ \A i \in Indices(homerun_queue) :
               homerun_queue[i].gif_attempts <= homerun_queue[i].max_attempts)
    /\ [][ (Enhanced /\ last_call'.op = "process"
            /\ play_queue[gif_index].gif_attempts >= play_queue[gif_index].max_attempts)
           => (play_queue' = play_queue /\ last_call'.log \notin AttemptLogs) ]_vars
    /\ [][ (tracker = "mets" /\ last_call'.op = "process"
            /\ Head(hr_pending).gif_attempts >= Head(hr_pending).max_attempts)
           => (/\ last_call'.log \notin AttemptLogs
               /\ \A i \in Indices(homerun_queue') :
                      \E j \in Indices(homerun_queue) : homerun_queue'[i] = homerun_queue[j]) ]_vars

C4_Witness ==
    /\ Enhanced
    /\ last_call.op = "process" /\ last_call.log = "gave up"
    /\ \E i \in Indices(play_queue) :
           /\ play_queue[i].play_id = last_call.play_id
           /\ play_queue[i].gif_attempts = play_queue[i].max_attempts

\* C5: at most one successful publish happens per composite play id.
C5_PublishAtMostOnce ==
    Enhanced => \A id \in PlayIds : post_count[id] <= 1

\* C6: at most one monitor_games thread and at most one process_gif_queue
\* thread are inside their loops at any time.
RunningPollers   == { t \in Threads : poller_pc[t] \in {"test", "sleep"} }
RunningEnrichers == { t \in Threads : gif_thread_pc[t] \in {"test", "sleep"} }
C6_SingleThreads ==
    /\ Cardinality(RunningPollers) <= 1
    /\ Cardinality(RunningEnrichers) <= 1

\* C20: after stop_monitoring() has cleared the flags, unless monitoring is
\* started again, the Poller loop and the Enricher loop end: eventually no
\* monitor_games thread and no process_gif_queue thread is inside its loop.
C20_CooperativeStop ==
    (last_call.op = "/stop" /\ last_call.ret)
        ~> (\/ RunningPollers = {} /\ RunningEnrichers = {}
            \/ monitoring)

C20_Witness ==
    /\ ~monitoring /\ ~processing_gifs
    /\ RunningPollers = {} /\ RunningEnrichers = {}
    /\ \E t \in Threads : poller_pc[t] = "done" /\ gif_thread_pc[t] = "done"
    /\ \A t \in Threads : poller_pc[t] # "start"

\* C21: while monitoring is true a polling cycle never ends the Poller loop,
\* whether it raised or not: the thread sleeps and then tests the flag again.
\* After an exception the sleep is 120 seconds; after a normal cycle it is
\* max(0, 120 - elapsed), never negative.
C21_PollerSurvivesErrors ==
    [][\A t \in Threads :
        /\ (poller_pc[t] = "test" /\ poller_pc'[t] # "test" /\ monitoring) =>
              /\ poller_pc'[t] = "sleep"
              /\ last_scan'.outcome \in {"ok", "error"}
              /\ last_scan'.outcome = "error" => last_scan'.sleep_time = 120
              /\ last_scan'.outcome = "ok" =>
                    /\ last_scan'.sleep_time >= 0
                    /\ last_scan'.elapsed <= 120 =>
                          last_scan'.sleep_time = 120 - last_scan'.elapsed
                    /\ last_scan'.elapsed >= 120 => last_scan'.sleep_time = 0
        /\ (poller_pc[t] = "sleep" /\ poller_pc'[t] # "sleep") => poller_pc'[t] = "test"
        /\ (poller_pc[t] # "done" /\ poller_pc'[t] = "done") => ~monitoring
      ]_vars

C21_Witness ==
    /\ monitoring
    /\ last_call.op = "monitor_games" /\ last_call.log = "wake"
    /\ last_scan.outcome = "error" /\ last_scan.sleep_time = 120
    /\ poller_pc[last_call.play_id] = "test"

\* C22: whatever the interleaving of queue_high_impact_play with the
\* Enricher's cycle, an item that is in play_queue and not published stays
\* in play_queue, unless a later enqueue evicts it.
C22_NoUnpublishedLost ==
    [][\A i \in Indices(play_queue) :
          ~play_queue[i].tweet_posted =>
              \/ Holds(play_queue', play_queue[i])
              \/ IsQueueCall(last_call') /\ last_call' # last_call
      ]_vars

\* C23: every item that enters play_queue eventually is published or has
\* used all its attempts.
C23_EnricherProgress ==
    \A id \in PlayIds, ts \in 1..MaxQueuedToday :
        (\E i \in Indices(play_queue) :
            play_queue[i].play_id = id /\ play_queue[i].timestamp = ts)
        ~> (\E i \in Indices(play_queue) :
              /\ play_queue[i].play_id = id /\ play_queue[i].timestamp = ts
              /\ \/ play_queue[i].tweet_posted
                 \/ play_queue[i].gif_attempts >= play_queue[i].max_attempts)

\* the last attempt on p, if any, is at least the cooldown old
CooledDown(p) == p.last_attempt = None \/ p.last_attempt[1] >= RetryCooldownSeconds

\* C24: an Enricher iteration makes a GIF attempt only on an item that is not
\* published, has attempts left and whose last attempt, if any, is at least
\* 300 seconds old, in EnhancedImpactTracker and in MetsHomeRunTracker; so
\* two successive attempts on one item are at least 300 seconds apart.
C24_AttemptsRespectCooldown ==
    [][ /\ (/\ Enhanced
             /\ gif_index' = gif_index + 1
             /\ last_call'.op = "process" /\ last_call'.log \in AttemptLogs) =>
              /\ ~play_queue[gif_index].tweet_posted
              /\ play_queue[gif_index].gif_attempts < play_queue[gif_index].max_attempts
              /\ CooledDown(play_queue[gif_index])
        /\ (/\ tracker = "mets"
             /\ hr_pending # << >> /\ hr_pending' = Tail(hr_pending)
             /\ last_call'.op = "process" /\ last_call'.log \in AttemptLogs) =>
              /\ ~Head(hr_pending).posted
              /\ Head(hr_pending).gif_attempts < Head(hr_pending).max_attempts
              /\ CooledDown(Head(hr_pending))
      ]_vars

C24_Witness ==
    /\ Enhanced
    /\ last_call.op = "process" /\ last_call.log \in AttemptLogs
    /\ \E i \in Indices(play_queue) :
           /\ play_queue[i].play_id = last_call.play_id
           /\ play_queue[i].gif_attempts = 2
           /\ play_queue[i].last_attempt = Some(0)

\* C25: an Enricher iteration on an eligible item is an attempt; an attempt
\* adds exactly one to the item's gif_attempts and sets its last_attempt to
\* the current time; when the pipeline returns no file or raises,
\* gif_created, tweet_posted and gif_path keep their values; the item stays
\* at its place in the queue, and no other item changes.
C25_AttemptFrame ==
    [][ (Enhanced /\ gif_index' = gif_index + 1) =>
          LET p == play_queue[gif_index]
              attempt == last_call'.op = "process" /\ last_call'.log \in AttemptLogs
          IN  /\ (Pending(p) /\ CooledDown(p)) => attempt
              /\ attempt =>
                    /\ Len(play_queue') = Len(play_queue)
                    /\ play_queue'[gif_index].play_id = p.play_id
                    /\ play_queue'[gif_index].timestamp = p.timestamp
                    /\ play_queue'[gif_index].gif_attempts = p.gif_attempts + 1
                    /\ play_queue'[gif_index].last_attempt = Some(0)
                    /\ \A j \in Indices(play_queue) \ {gif_index} :
                          play_queue'[j] = play_queue[j]
                    /\ last_call'.log \in {"no gif", "gif error"} =>
                          /\ play_queue'[gif_index].gif_created = p.gif_created
                          /\ play_queue'[gif_index].tweet_posted = p.tweet_posted
                          /\ play_queue'[gif_index].gif_path = p.gif_path
      ]_vars

C25_Witness ==
    /\ Enhanced
    /\ Len(play_queue) = 2
    /\ last_call.op = "process" /\ last_call.log = "gif error"
    /\ \E i \in Indices(play_queue) :
           /\ play_queue[i].play_id = last_call.play_id
           /\ play_queue[i].gif_attempts = 1
           /\ play_queue[i].last_attempt = Some(0)
           /\ ~play_queue[i].gif_created /\ ~play_queue[i].tweet_posted
           /\ play_queue[i].gif_path = None

\* C26: queue_mets_home_run keeps homerun_queue within max_queue_size and
\* removes only a home run that is posted or has used all its attempts; a
\* home run still pending is never removed by it.
C26_MetsEvictsOnlyDone ==
    /\ [](Len(homerun_queue) <= mets_max_queue_size)
    /\ [][ (tracker = "mets" /\ IsQueueCall(last_call') /\ last_call' # last_call) =>
              \A i \in Indices(homerun_queue) :
                  \/ Holds(homerun_queue', homerun_queue[i])
                  \/ homerun_queue[i].posted
                  \/ homerun_queue[i].gif_attempts >= homerun_queue[i].max_attempts
          ]_vars

\* C27: queue_high_impact_play refuses a new play only when the queue is
\* full and holds no published and no exhausted item; the refusal changes
\* neither play_queue, processed_plays, plays_queued_today nor the file, and
\* the refused id is not in processed_plays, so a later call with the same
\* id is not rejected as a duplicate.
C27_RefusalChangesNothing ==
    [][ (/\ Enhanced
         /\ IsQueueCall(last_call') /\ last_call' # last_call
         /\ last_call'.log = "queue at max size") =>
           /\ ~last_call'.ret
           /\ Len(play_queue) >= max_queue_size
           /\ \A i \in Indices(play_queue) : Pending(play_queue[i])
           /\ UNCHANGED << play_queue, processed_plays, plays_queued_today, disk >>
           /\ last_call'.play_id \notin processed_plays'
      ]_vars

C27_Witness ==
    /\ Enhanced
    /\ IsQueueCall(last_call) /\ last_call.log = "queue at max size"
    /\ last_call.play_id \notin processed_plays
    /\ Len(play_queue) = max_queue_size
    /\ load_queue(disk).queue = play_queue

\* the plays of the sequence top
InTop(top) == { top[i] : i \in Indices(top) }

\* C29: within a day top_plays holds at most 3 plays, all of them extracted
\* that day, as many as were extracted up to 3, and no extracted play left
\* out ranks above one that is kept, in the order has_real_wpa first, then
\* impact.
C29_TopThreeAreGreatest ==
    tracker = "live" =>
        /\ Len(live.top_plays) <= 3
        /\ InTop(live.top_plays) \subseteq live.extracted
        /\ Cardinality(live.extracted) <= 3 => InTop(live.top_plays) = live.extracted
        /\ Cardinality(live.extracted) >= 3 => Len(live.top_plays) = 3
        /\ \A p \in live.extracted \ InTop(live.top_plays) :
               \A q \in InTop(live.top_plays) : KeyGeq(SortKey(q), SortKey(p))

\* C30: when the monitoring loop detects the day after, and when a process
\* start finds a data file dated the day before, the top plays of the ending
\* day are in the previous-day file once the daily data are reset:
\* load_previous_day_data returns them on the following day.
C30_RolloverKeepsTopPlays ==
    [][ /\ (/\ IsLive
             /\ last_call'.op = "check_day" /\ last_call'.log = "new day"
             /\ live.last_date = Some(live.today - 1)) =>
               load_previous_day_data(live') = live.top_plays
        /\ (/\ IsLive
             /\ last_call'.op = "start"
             /\ live.data_file # None
             /\ live.data_file[1].date = live.today - 1) =>
               load_previous_day_data(live') = live.data_file[1].plays
      ]_vars

\* C7 (as claimed): an item that reached max_attempts without being
\* published is eventually removed from play_queue.
C7_AbandonedEventuallyRemoved ==
    \A id \in PlayIds :
        (\E i \in Indices(play_queue) :
            play_queue[i].play_id = id /\ Abandoned(play_queue[i]))
        ~> (\A i \in Indices(play_queue) : play_queue[i].play_id # id)

\* C7 (amended): an item that reached max_attempts without being published
\* is never removed by the Enricher; it leaves play_queue only when a
\* queue_high_impact_play call at capacity evicts it as the failed play.
C7_AbandonedOnlyEvicted ==
    [][ (\E i \in Indices(play_queue) :
            /\ Enhanced
            /\ Abandoned(play_queue[i])
            /\ ~Holds(play_queue', play_queue[i]))
        => (IsQueueCall(last_call') /\ last_call'.ret /\ last_call'.log = "failed") ]_vars

C7_Witness ==
    /\ Enhanced
    /\ last_call.op = "cleanup"
    /\ \E i \in Indices(play_queue) : Abandoned(play_queue[i])

\* C8: post_to_discord is called for an item only in an Enricher attempt
\* whose GIF pipeline returned an existing file, and never for an item that
\* reached max_attempts with gif_created still false.
C8_PublishOnlyWithGif ==
    /\ [](\A i \in Indices(play_queue) :
             play_queue[i].tweet_posted => play_queue[i].gif_created)
    /\ [][ (Enhanced /\ last_call'.op = "process" /\ last_call'.log \in PublishLogs)
           => /\ gif_index <= Len(play_queue)
              /\ gif_index' = gif_index + 1
              /\ play_queue[gif_index].gif_attempts < play_queue[gif_index].max_attempts
              /\ play_queue'[gif_index].gif_attempts = play_queue[gif_index].gif_attempts + 1
              /\ play_queue'[gif_index].gif_created
              /\ play_queue'[gif_index].gif_path # None ]_vars

C8_Witness ==
    /\ Enhanced
    /\ last_call.op = "process" /\ last_call.log = "gave up"
    /\ \E i \in Indices(play_queue) :
           /\ play_queue[i].play_id = last_call.play_id
           /\ Exhausted(play_queue[i])
           /\ ~play_queue[i].gif_created
           /\ ~play_queue[i].tweet_posted
    /\ \E id \in PlayIds : post_count[id] > 0

\* C9: an enqueue of a new play id into a queue of max_queue_size items,
\* none published and none exhausted, returns False and leaves play_queue
\* as it was.
C9_FullQueueRefuses ==
    [][ (/\ Enhanced
         /\ IsQueueCall(last_call')
         /\ last_call'.play_id \notin processed_plays
         /\ Len(play_queue) = max_queue_size
         /\ \A i \in Indices(play_queue) : Pending(play_queue[i]))
        => (last_call'.ret = FALSE /\ play_queue' = play_queue) ]_vars

C9_Witness ==
    /\ Enhanced
    /\ IsQueueCall(last_call) /\ ~last_call.ret
    /\ last_call.log = "queue at max size"
    /\ last_call.play_id \notin processed_plays
    /\ Len(play_queue) = max_queue_size
    /\ \A i \in Indices(play_queue) : Pending(play_queue[i])

\* C10: an enqueue of a new play id into a full queue evicts exactly one
\* item: a published item of oldest timestamp if some item is published,
\* else an exhausted item of oldest timestamp if some item is exhausted;
\* else it evicts nothing and refuses.  A pending item is never evicted.
C10_EvictionRule ==
    [][ (/\ Enhanced
         /\ IsQueueCall(last_call')
         /\ last_call'.play_id \notin processed_plays
         /\ Len(play_queue) >= max_queue_size)
        => LET q    == play_queue
               done == { i \in Indices(q) : q[i].tweet_posted }
               dead == { i \in Indices(q) : q[i].gif_attempts >= q[i].max_attempts }
               EvictsOldestOf(cand) ==
                   \E i \in cand :
                       /\ q[i].timestamp = MinTimestamp(q, cand)
                       /\ ~Pending(q[i])
                       /\ Len(play_queue') = Len(q)
                       /\ SubSeq(play_queue', 1, Len(q) - 1) = RemoveAt(q, i)
                       /\ play_queue'[Len(q)].play_id = last_call'.play_id
                       /\ last_call'.ret
           IN  IF done # {} THEN EvictsOldestOf(done)
               ELSE IF dead # {} THEN EvictsOldestOf(dead)
               ELSE play_queue' = q /\ ~last_call'.ret ]_vars

C10_Witness ==
    /\ Enhanced
    /\ IsQueueCall(last_call) /\ last_call.ret /\ last_call.log = "completed"
    /\ Len(play_queue) = max_queue_size
    /\ \E i \in Indices(play_queue) : Abandoned(play_queue[i])

====
